---- MODULE Spec2Model ----
(***************************************************************************)
(* Model of the `cli` greeter (cli/src/main.rs).                           *)
(*                                                                         *)
(* Text is modelled as a sequence of one-character strings, so that the    *)
(* lexing of a command-line token (its leading hyphens, its `=`) and the   *)
(* formatting of the greeting are computed character by character.         *)
(*                                                                         *)
(* `Args::parse()` is generated by `#[derive(Parser)]` from the `Args`     *)
(* struct: one option `name` with a short (`-n`) and a long (`--name`)     *)
(* spelling taking one value, plus the help flag the derive always adds.   *)
(* The `#[command(...)]` attributes set `name` and `about` but no          *)
(* `version`, so no version flag is generated.  The operators below follow *)
(* the derived parser's walk over the tokens for this one command.         *)
(***************************************************************************)
EXTENDS Naturals, Sequences, FiniteSets

\* Longest command line explored (number of tokens after the program path).
MaxArgs == 3

\* Longest command line explored where progress is checked.
MaxFairArgs == 2

----------------------------------------------------------------------------
(* Text helpers *)

StartsWith(s, p) == Len(s) >= Len(p) /\ SubSeq(s, 1, Len(p)) = p

Drop(s, k) == SubSeq(s, k + 1, Len(s))

\* Position of the first "=" in s, or 0 when there is none.
RECURSIVE FindEq(_, _)
FindEq(s, i) ==
    IF i > Len(s) THEN 0
    ELSE IF s[i] = "=" THEN i
    ELSE FindEq(s, i + 1)

\* Option<T>: None is the empty sequence, Some(v) the one-element sequence.
None == <<>>
Some(v) == <<v>>

----------------------------------------------------------------------------
(* The command derived from struct Args *)

\* Faulty variant of ShortName: the short spelling in upper case.
ShortNameUpper == "N"

\* #[arg(short, long)] name: the long spelling is the field's name, the
\* short spelling its first character.
LongName == <<"n", "a", "m", "e">>

ShortName == "n"

\* The help flag the derive adds to every command.
LongHelp == <<"h", "e", "l", "p">>
ShortHelp == "h"

\* #[command(name = "cli")], #[command(about = "A CLI application")]:
\* the head of the help text (the about line and the usage line).
HelpText ==
    <<"A", " ", "C", "L", "I", " ", "a", "p", "p", "l", "i", "c", "a", "t",
      "i", "o", "n", "\n", "\n", "U", "s", "a", "g", "e", ":", " ", "c", "l",
      "i", " ", "[", "O", "P", "T", "I", "O", "N", "S", "]", "\n">>

\* Outcomes of a parse that is not a success.
NoError == "none"
DisplayHelp == "DisplayHelp"
UnknownArgument == "UnknownArgument"
InvalidValue == "InvalidValue"
ArgumentConflict == "ArgumentConflict"
TooManyValues == "TooManyValues"

----------------------------------------------------------------------------
(* Lexing of one token *)

\* "--": everything after it is positional.
IsEscape(tok) == tok = <<"-", "-">>

\* "--x..." (not the bare escape).
IsLong(tok) == StartsWith(tok, <<"-", "-">>) /\ Len(tok) > 2

\* "-x..." with x not a hyphen; the lone "-" is a value.
IsShort(tok) == StartsWith(tok, <<"-">>) /\ Len(tok) > 1 /\ tok[2] # "-"

\* The flag of a long token: what follows "--" up to the first "=".
LongFlag(tok) ==
    LET r == Drop(tok, 2)
        e == FindEq(r, 1)
    IN  IF e = 0 THEN r ELSE SubSeq(r, 1, e - 1)

\* The value attached to a long token with "=", if any.
LongValue(tok) ==
    LET r == Drop(tok, 2)
        e == FindEq(r, 1)
    IN  IF e = 0 THEN None ELSE Some(Drop(r, e))

\* The value attached to a short option: the rest of the token after the
\* option's character, without one leading "="; nothing when that rest is
\* empty.
ShortValue(tok) ==
    LET r == Drop(tok, 2)
    IN  IF r = <<>> THEN None
        ELSE IF r[1] = "=" THEN Some(Drop(r, 1))
        ELSE Some(r)

----------------------------------------------------------------------------
(* The matcher: what the parser has collected so far.                      *)
(*   name      the value stored for the option, None while unset           *)
(*   pending   an occurrence of the option whose value is still collected  *)
(*   raw_vals  the values collected for the pending occurrence             *)
(*   opt       the parser expects the next token to be the option's value  *)
(*   trailing  "--" has been passed                                        *)
(*   err       NoError, or the outcome that ended the parse                *)

Matcher0 ==
    [name |-> None, pending |-> FALSE, raw_vals |-> <<>>, opt |-> FALSE,
     trailing |-> FALSE, err |-> NoError]

Fail(m, kind) == [m EXCEPT !.err = kind]

\* The option's action (set a single value) on the values of one occurrence:
\* exactly one value is required, and a second occurrence is a conflict.
SetName(m, vals) ==
    IF Len(vals) = 0 THEN Fail(m, InvalidValue)
    ELSE IF m.name # None THEN Fail(m, ArgumentConflict)
    ELSE [m EXCEPT !.name = Some(vals[1])]

\* A pending occurrence is settled before anything else is acted on.
ResolvePending(m) ==
    IF ~m.pending THEN m
    ELSE SetName([m EXCEPT !.pending = FALSE, !.raw_vals = <<>>, !.opt = FALSE],
                 m.raw_vals)

\* Faulty variant of ReactHelp: the help flag is accepted and does nothing.
ReactHelpIgnored(m) == ResolvePending(m)

\* The help flag: settle what is pending, then stop with the help text.
ReactHelp(m) ==
    LET r == ResolvePending(m)
    IN  IF r.err # NoError THEN r ELSE Fail(r, DisplayHelp)

\* An occurrence of the option, with the value attached to its token if any:
\* an attached value is stored at once, otherwise the next token is awaited.
ParseOptValue(m, attached) ==
    LET r == ResolvePending(m)
    IN  IF r.err # NoError THEN r
        ELSE IF attached # None THEN SetName(r, attached)
        ELSE [r EXCEPT !.pending = TRUE, !.raw_vals = <<>>, !.opt = TRUE]

\* Faulty variant of ParseLongArg: an unknown long flag is skipped.
ParseLongArgSkipUnknown(m, tok) ==
    IF LongFlag(tok) = LongName THEN ParseOptValue(m, LongValue(tok))
    ELSE IF LongFlag(tok) = LongHelp THEN
        IF LongValue(tok) # None THEN Fail(m, TooManyValues) ELSE ReactHelp(m)
    ELSE m

\* Variant of ParseLongArg for a command that declares a version: --version
\* is then a flag that, like --help, prints and ends the run normally.
ParseLongArgWithVersion(m, tok) ==
    IF LongFlag(tok) = LongName THEN ParseOptValue(m, LongValue(tok))
    ELSE IF LongFlag(tok) \in {LongHelp, <<"v", "e", "r", "s", "i", "o", "n">>} THEN
        IF LongValue(tok) # None THEN Fail(m, TooManyValues) ELSE ReactHelp(m)
    ELSE Fail(m, UnknownArgument)

\* A long flag: the option, the help flag, or an unknown argument.
ParseLongArg(m, tok) ==
    IF LongFlag(tok) = LongName THEN ParseOptValue(m, LongValue(tok))
    ELSE IF LongFlag(tok) = LongHelp THEN
        IF LongValue(tok) # None THEN Fail(m, TooManyValues) ELSE ReactHelp(m)
    ELSE Fail(m, UnknownArgument)

\* Only the first character of a short cluster is ever acted on: the option
\* takes the rest of the token as its value, the help flag stops the parse,
\* and any other character is unknown.
ParseShortArg(m, tok) ==
    IF tok[2] = ShortName THEN ParseOptValue(m, ShortValue(tok))
    ELSE IF tok[2] = ShortHelp THEN ReactHelp(m)
    ELSE Fail(m, UnknownArgument)

\* One token.  The command has no positional argument and no subcommand, so
\* a token that is neither a flag nor the awaited value is unexpected.
ParseToken(m, tok) ==
    IF m.trailing THEN Fail(m, UnknownArgument)
    ELSE IF IsEscape(tok) THEN [m EXCEPT !.trailing = TRUE]
    ELSE IF IsLong(tok) THEN ParseLongArg(m, tok)
    ELSE IF IsShort(tok) THEN ParseShortArg(m, tok)
    ELSE IF m.opt THEN [m EXCEPT !.raw_vals = Append(@, tok), !.opt = FALSE]
    ELSE Fail(m, UnknownArgument)

RECURSIVE GetMatches(_, _, _)
GetMatches(m, toks, i) ==
    IF m.err # NoError THEN m
    ELSE IF i > Len(toks) THEN ResolvePending(m)
    ELSE GetMatches(ParseToken(m, toks[i]), toks, i + 1)

\* Faulty variant of ArgsParse: an empty value counts as no value.
ArgsParseEmptyAsNone(toks) ==
    LET m == GetMatches(Matcher0, toks, 1)
    IN  [err |-> m.err,
         name |-> IF m.err = NoError /\ m.name # Some(<<>>) THEN m.name ELSE None]

\* Args::parse(): the outcome (NoError on success) and the Args value.
ArgsParse(toks) ==
    LET m == GetMatches(Matcher0, toks, 1)
    IN  [err |-> m.err, name |-> IF m.err = NoError THEN m.name ELSE None]

\* The exit status of a parse that did not succeed: the help text is a
\* normal completion, every other outcome a usage error.
ExitCodeOf(err) == IF err = DisplayHelp THEN 0 ELSE 2

----------------------------------------------------------------------------
(* Command lines explored *)

TokName == <<"-", "-", "n", "a", "m", "e">>
TokN == <<"-", "n">>
TokHelp == <<"-", "-", "h", "e", "l", "p">>
TokH == <<"-", "h">>
TokVersion == <<"-", "-", "v", "e", "r", "s", "i", "o", "n">>
TokV == <<"-", "V">>
TokBogus == <<"-", "-", "b", "o", "g", "u", "s">>
TokEscape == <<"-", "-">>

Flags == {TokName, TokN, TokHelp, TokH, TokVersion, TokV, TokBogus, TokEscape}

\* Values that do not look like flags: empty, mixed case, padded, lone "-".
PlainValues == {<<>>, <<"A", "l">>, <<" ", "a", " ">>, <<"-">>}

\* A value that starts with a hyphen, such as a negative number.
HyphenValues == {<<"-", "5">>}

\* Every token may stand where a value is expected.
Values == PlainValues \cup HyphenValues \cup Flags

\* Tokens carrying an attached value: --name=v and -nv.
Attached ==
    {TokName \o <<"=">> \o v : v \in {<<>>, <<"A", "l">>, TokV}}
    \cup {TokN \o v : v \in {<<"A", "l">>, <<"=", "A", "l">>}}

Tokens == Values \cup Attached

RECURSIVE SeqsUpTo(_, _)
SeqsUpTo(S, n) ==
    IF n = 0 THEN {<<>>}
    ELSE LET shorter == SeqsUpTo(S, n - 1)
         IN  shorter \cup {Append(s, x) : s \in shorter, x \in S}

----------------------------------------------------------------------------
(* The process *)

VARIABLES
    argv,        \* the command line, without the program path
    pc,          \* position in main
    args,        \* the Args value: its field name
    stdout,      \* characters written to standard output
    stderr,      \* the usage error reported, NoError if none
    exit_code    \* None while running, Some(status) once exited

vars == <<argv, pc, args, stdout, stderr, exit_code>>

Hello == <<"H", "e", "l", "l", "o", ",", " ">>
World == <<"w", "o", "r", "l", "d">>

RECURSIVE TrimStart(_)
TrimStart(s) == IF s # <<>> /\ s[1] = " " THEN TrimStart(Drop(s, 1)) ELSE s

RECURSIVE TrimEnd(_)
TrimEnd(s) ==
    IF s # <<>> /\ s[Len(s)] = " " THEN TrimEnd(SubSeq(s, 1, Len(s) - 1)) ELSE s

\* Faulty variant of GreetingOf: the name is trimmed.
GreetingOfTrimmed(name) == Hello \o TrimEnd(TrimStart(name)) \o <<"!", "\n">>

\* Faulty variant of GreetingOf: an empty name falls back to "world".
GreetingOfEmptyAsWorld(name) ==
    Hello \o (IF name = <<>> THEN World ELSE name) \o <<"!", "\n">>

\* println!("Hello, {}!", name)
GreetingOf(name) == Hello \o name \o <<"!", "\n">>

\* Faulty variant of GreetingWorld: "World" capitalised.
GreetingWorldCapital == Hello \o <<"W", "o", "r", "l", "d">> \o <<"!", "\n">>

\* println!("Hello, world!")
GreetingWorld == Hello \o World \o <<"!", "\n">>

Init ==
    /\ argv \in SeqsUpTo(Tokens, MaxArgs)
    /\ pc = "parsing"
    /\ args = None
    /\ stdout = <<>>
    /\ stderr = NoError
    /\ exit_code = None

\* let args = Args::parse();
\* On success main goes on with the Args value; otherwise the parser itself
\* prints (the help text to standard output, a usage error to standard
\* error) and exits the process.
Parse ==
    /\ pc = "parsing"
    /\ LET r == ArgsParse(argv)
       IN  IF r.err = NoError
           THEN /\ args' = r.name
                /\ pc' = "parsed"
                /\ UNCHANGED <<stdout, stderr, exit_code>>
           ELSE /\ pc' = "exited"
                /\ exit_code' = Some(ExitCodeOf(r.err))
                /\ stdout' = IF r.err = DisplayHelp THEN HelpText ELSE stdout
                /\ stderr' = IF r.err = DisplayHelp THEN stderr ELSE r.err
                /\ UNCHANGED args
    /\ UNCHANGED argv

\* Faulty variant of GreetName: no else, so the default greeting follows.
GreetNameFallthrough ==
    /\ pc = "parsed"
    /\ args # None
    /\ stdout' = stdout \o GreetingOf(args[1]) \o GreetingWorld
    /\ pc' = "printed"
    /\ UNCHANGED <<argv, args, stderr, exit_code>>

\* Faulty variant of GreetName: the name is taken out of the Args value.
GreetNameTakes ==
    /\ pc = "parsed"
    /\ args # None
    /\ stdout' = stdout \o GreetingOf(args[1])
    /\ pc' = "printed"
    /\ args' = None
    /\ UNCHANGED <<argv, stderr, exit_code>>

\* if let Some(name) = args.name { println!("Hello, {}!", name); }
GreetName ==
    /\ pc = "parsed"
    /\ args # None
    /\ stdout' = stdout \o GreetingOf(args[1])
    /\ pc' = "printed"
    /\ UNCHANGED <<argv, args, stderr, exit_code>>

\* else { println!("Hello, world!"); }
GreetWorld ==
    /\ pc = "parsed"
    /\ args = None
    /\ stdout' = stdout \o GreetingWorld
    /\ pc' = "printed"
    /\ UNCHANGED <<argv, args, stderr, exit_code>>

\* main returns: the process exits with status 0.
Exit ==
    /\ pc = "printed"
    /\ pc' = "exited"
    /\ exit_code' = Some(0)
    /\ UNCHANGED <<argv, args, stdout, stderr>>

Next == Parse \/ GreetName \/ GreetWorld \/ Exit

Spec == Init /\ [][Next]_vars

\* The same process on the shorter command lines, with its progress stated:
\* it is single-threaded and nothing blocks it, so each step is taken.
FairInit ==
    /\ argv \in SeqsUpTo(Tokens, MaxFairArgs)
    /\ pc = "parsing"
    /\ args = None
    /\ stdout = <<>>
    /\ stderr = NoError
    /\ exit_code = None

FairSpec == FairInit /\ [][Next]_vars /\ WF_vars(Next)

----------------------------------------------------------------------------
(* Vocabulary of the properties, spelled out independently of the actions *)

ExpectedGreeting(s) == <<"H", "e", "l", "l", "o", ",", " ">> \o s \o <<"!", "\n">>

ExpectedWorld ==
    <<"H", "e", "l", "l", "o", ",", " ", "w", "o", "r", "l", "d", "!", "\n">>

\* A hyphen followed by at least one more character.
LooksLikeFlag(s) == Len(s) >= 2 /\ s[1] = "-"

\* Some line of standard output starts with "Hello, ".
HasGreeting ==
    \E i \in 1..Len(stdout) :
        /\ i = 1 \/ stdout[i - 1] = "\n"
        /\ i + 6 <= Len(stdout)
        /\ SubSeq(stdout, i, i + 6) = <<"H", "e", "l", "l", "o", ",", " ">>

Exited == pc = "exited"

ExitedWith(code) == pc = "exited" /\ exit_code = <<code>>

Contains(toks, S) == \E i \in 1..Len(toks) : toks[i] \in S

NameSpellings == {TokName, TokN}

----------------------------------------------------------------------------
(* C1 *)

\* C1, as stated: for every string s, the command line `--name s` ends with
\* standard output exactly "Hello, s!\n".
C1_AllStrings ==
    (Exited /\ Len(argv) = 2 /\ argv[1] = TokName)
        => stdout = ExpectedGreeting(argv[2])

\* C1, amended: for every string s that is not a hyphen followed by further
\* characters, the command line `--name s` ends with standard output exactly
\* "Hello, s!\n" (s unchanged: not trimmed, not recased, not escaped), with
\* nothing on standard error and exit status 0.
C1_PlainStrings ==
    (Exited /\ Len(argv) = 2 /\ argv[1] = TokName /\ ~LooksLikeFlag(argv[2]))
        => /\ stdout = ExpectedGreeting(argv[2])
           /\ stderr = NoError
           /\ exit_code = <<0>>

C1_Witness ==
    /\ Exited
    /\ argv = <<TokName, <<" ", "a", " ">> >>
    /\ stdout = ExpectedGreeting(<<" ", "a", " ">>)

----------------------------------------------------------------------------
(* C2 *)

\* C2: a command line without any -n/--name occurrence that the parser
\* accepts (the empty command line in particular) ends with standard output
\* exactly "Hello, world!\n" and exit status 0.
C2_NoNameFlag ==
    /\ (Exited /\ argv = <<>>) => (stdout = ExpectedWorld /\ exit_code = <<0>>)
    /\ (Exited /\ stderr = NoError /\ stdout # HelpText
            /\ \A i \in 1..Len(argv) :
                  ~StartsWith(argv[i], TokName) /\ ~StartsWith(argv[i], TokN))
        => (stdout = ExpectedWorld /\ exit_code = <<0>>)

C2_Witness == Exited /\ argv = <<>> /\ stdout = ExpectedWorld

----------------------------------------------------------------------------
(* C3 *)

\* C3: the command line `--name ""` ends with standard output exactly
\* "Hello, !\n": the empty name is greeted, not replaced by "world".
C3_EmptyName ==
    (Exited /\ argv = <<TokName, <<>> >>)
        => /\ stdout = <<"H", "e", "l", "l", "o", ",", " ", "!", "\n">>
           /\ stdout # ExpectedWorld
           /\ exit_code = <<0>>

C3_Witness == Exited /\ argv = <<TokName, <<>> >> /\ args = <<<<>>>>

----------------------------------------------------------------------------
(* C4 *)

\* C4, as stated: the greeting is "Hello, {name}!" when name is present and
\* non-empty, and "Hello, world!" otherwise (an empty name included).
C4_NonEmptyOrWorld ==
    pc = "printed"
        => stdout = IF args # None /\ args[1] # <<>>
                    THEN ExpectedGreeting(args[1])
                    ELSE ExpectedWorld

\* C4, amended: the greeting is "Hello, {name}!" when name is present, the
\* empty string included, and "Hello, world!" only when name is absent.
C4_PresentOrWorld ==
    pc = "printed"
        => stdout = IF args # None
                    THEN ExpectedGreeting(args[1])
                    ELSE ExpectedWorld

C4_Witness == pc = "printed" /\ args = <<<<>>>> /\ HasGreeting

----------------------------------------------------------------------------
(* C5 *)

\* What a whole run on the command line toks leaves behind.
Final(toks) ==
    LET r == ArgsParse(toks)
    IN  IF r.err = NoError
        THEN [out |-> IF r.name # None THEN GreetingOf(r.name[1])
                      ELSE GreetingWorld,
              err |-> NoError, code |-> 0]
        ELSE [out |-> IF r.err = DisplayHelp THEN HelpText ELSE <<>>,
              err |-> IF r.err = DisplayHelp THEN NoError ELSE r.err,
              code |-> ExitCodeOf(r.err)]

\* toks with every -n token respelled --name.
Respelled(toks) ==
    [i \in 1..Len(toks) |-> IF toks[i] = TokN THEN TokName ELSE toks[i]]

\* C5: a run on `-n v` ends with the standard output, the diagnostic and the
\* exit status of a run on `--name v`, for every v; more generally, so does
\* any command line when each of its -n tokens is respelled --name.
C5_ShortLongAlias ==
    Exited
        => [out |-> stdout, err |-> stderr, code |-> exit_code[1]]
               = Final(Respelled(argv))

C5_Witness ==
    /\ Exited
    /\ argv = <<TokN, <<"A", "l">> >>
    /\ stdout = ExpectedGreeting(<<"A", "l">>)
    /\ Final(<<TokName, <<"A", "l">> >>).out = stdout

----------------------------------------------------------------------------
(* C6 *)

\* C6: a run whose command line starts with an unknown flag (--bogus), or
\* reaches it after a complete `--name v` / `-n v`, ends as an unknown-argument
\* usage error; a run on any command line that holds the unknown flag with no
\* -h/--help before it ends as a usage error; each such run has a non-zero
\* exit status and an empty standard output.  No command line containing the
\* unknown flag ever reaches the greeting branch or prints a greeting line,
\* and no run that reports a usage error has printed anything.
C6_UnknownFlag ==
    /\ ( \/ (Len(argv) >= 1 /\ argv[1] = TokBogus)
         \/ (Len(argv) >= 3 /\ argv[1] \in NameSpellings
                /\ ~LooksLikeFlag(argv[2]) /\ argv[3] = TokBogus) )
        => /\ pc \in {"parsing", "exited"}
           /\ Exited => /\ stderr = UnknownArgument
                        /\ exit_code # None /\ exit_code[1] # 0
                        /\ stdout = <<>>
    /\ ( \E i \in 1..Len(argv) :
            /\ argv[i] = TokBogus
            /\ \A j \in 1..(i - 1) :
                  ~StartsWith(argv[j], TokH) /\ ~StartsWith(argv[j], TokHelp) )
        => (Exited => /\ stderr # NoError
                      /\ exit_code # None /\ exit_code[1] # 0
                      /\ stdout = <<>>)
    /\ Contains(argv, {TokBogus})
        => (pc \in {"parsing", "exited"} /\ ~HasGreeting)
    /\ stderr # NoError
        => (Exited /\ exit_code # None /\ exit_code[1] # 0 /\ stdout = <<>>)
    /\ pc \in {"parsed", "printed"} => stderr = NoError

C6_Witness ==
    /\ Exited
    /\ argv = <<TokBogus>>
    /\ stderr = UnknownArgument
    /\ exit_code = <<2>>

----------------------------------------------------------------------------
(* C7 *)

\* C7: a run whose command line starts with --help or -h (whatever follows,
\* a --name included), or reaches it after a complete `--name v` / `-n v` /
\* `--name=v`, ends with the help text on standard output, nothing on
\* standard error and exit status 0; and no command line containing --help
\* or -h ever reaches the greeting branch or prints a greeting line.
C7_Help ==
    /\ ( \/ (Len(argv) >= 1 /\ argv[1] \in {TokHelp, TokH})
         \/ (Len(argv) >= 3 /\ argv[1] \in NameSpellings
                /\ ~LooksLikeFlag(argv[2]) /\ argv[3] \in {TokHelp, TokH})
         \/ (Len(argv) >= 2 /\ StartsWith(argv[1], TokName \o <<"=">>)
                /\ argv[2] \in {TokHelp, TokH}) )
        => /\ pc \in {"parsing", "exited"}
           /\ Exited => /\ stdout = HelpText
                        /\ stderr = NoError
                        /\ exit_code = <<0>>
    /\ Contains(argv, {TokHelp, TokH})
        => (pc \in {"parsing", "exited"} /\ ~HasGreeting)

C7_Witness ==
    /\ Exited
    /\ argv = <<TokName, <<"A", "l">>, TokHelp>>
    /\ stdout = HelpText
    /\ exit_code = <<0>>

----------------------------------------------------------------------------
(* C8 *)

\* C8, as stated: -V and --version are handled like -h and --help: they are
\* not unknown flags, the run ends normally, and no greeting is printed.
C8_VersionLikeHelp ==
    (Exited /\ Len(argv) >= 1 /\ argv[1] \in {TokVersion, TokV})
        => /\ stderr # UnknownArgument
           /\ exit_code = <<0>>
           /\ ~HasGreeting

\* C8, amended: the command declares no version, so -V and --version are not
\* flags of the CLI: unlike -h and --help they are unknown flags, the run
\* ends as a usage error with a non-zero exit status, and no greeting is
\* printed for them.
C8_VersionUnknown ==
    /\ (Len(argv) >= 1 /\ argv[1] \in {TokVersion, TokV})
        => /\ pc \in {"parsing", "exited"}
           /\ Exited => /\ stderr = UnknownArgument
                        /\ exit_code # None /\ exit_code[1] # 0
                        /\ stdout = <<>>
    /\ Contains(argv, {TokVersion, TokV}) => ~HasGreeting

C8_Witness ==
    /\ Exited
    /\ argv = <<TokVersion>>
    /\ stderr = UnknownArgument
    /\ exit_code = <<2>>

----------------------------------------------------------------------------
(* C9 *)

\* C9: in a run whose command line parses, nothing is written before the
\* branch, exactly one greeting (one println) is on standard output from the
\* print on, nothing is ever reported on standard error, and the process
\* exits with status 0 and has no status before it exits.
C9_OneGreeting ==
    ArgsParse(argv).err = NoError
        => /\ pc \in {"parsing", "parsed"} => stdout = <<>>
           /\ pc \in {"printed", "exited"}
                => stdout = IF args # None THEN ExpectedGreeting(args[1])
                            ELSE ExpectedWorld
           /\ stderr = NoError
           /\ exit_code = IF pc = "exited" THEN <<0>> ELSE <<>>

C9_Witness ==
    /\ ExitedWith(0)
    /\ argv = <<TokN, <<"A", "l">> >>
    /\ stdout = ExpectedGreeting(<<"A", "l">>)
    /\ stderr = NoError

----------------------------------------------------------------------------
(* C10 *)

\* A step along the straight line.
Forward ==
    \/ pc = "parsing" /\ pc' \in {"parsed", "exited"}
    \/ pc = "parsed" /\ pc' = "printed"
    \/ pc = "printed" /\ pc' = "exited"

\* C10: main only moves forward, parse -> branch -> print -> exit, or from
\* parse straight to exit when the parser ends the process (no step goes
\* back, nothing follows the exit); the Args value is never changed once
\* parsed; and every run ends.
C10_StraightLine ==
    /\ [][Forward]_vars
    /\ [][pc # "parsing" => args' = args]_vars
    /\ [][argv' = argv]_vars
    /\ <>(pc = "exited")

C10_Witness == pc = "exited" /\ args # None /\ HasGreeting

====
